---- MODULE Spec2Model ----
(***************************************************************************)
(* State-machine model of the Q-Learning playground component              *)
(* (src/app/page.tsx, RLPlayground).                                       *)
(*                                                                         *)
(* Numbers.  The component computes in IEEE doubles; the model uses        *)
(* fixed point:                                                            *)
(*   - rewards, totalReward, bestEpisodeReward: tenths  (-0.1 is -1)       *)
(*   - Q values: millionths (a reward of -0.1 is -100000)                  *)
(*   - epsilon: millionths (0.2 is 200000, 0.01 is 10000)                  *)
(* -Infinity is the sentinel NegInfinity, below every value that occurs.   *)
(*                                                                         *)
(* Each event handler runs to completion and React re-renders before the   *)
(* next event is delivered, so a handler is one atomic action that reads   *)
(* the state of the latest render; the updater passed to setQTable runs    *)
(* once per call of step.  The one closure that is never renewed is        *)
(* calculateOptimalPath (useCallback with an empty dependency list): it    *)
(* keeps the isTerminalState of the first render, whose grid is [].        *)
(* Time is not modelled: the 300 ms interval, the 500 ms timeout and the   *)
(* clicks interleave freely.  SavedPath.id and SavedPath.timestamp         *)
(* (wall-clock values) are left out; SavedPath.name is its number.         *)
(*                                                                         *)
(* phase, episodesDone and bestDone are history variables: they record the *)
(* episodes as the design defines them (start cell to terminal cell, ended *)
(* by the terminal step) and are read by no handler.  So are justSaved     *)
(* (the latest change of the state was an append by saveCurrentPath) and   *)
(* stepsSincePlaced (executions of step since the agent was last put on    *)
(* the start cell).                                                        *)
(***************************************************************************)
EXTENDS Integers, Sequences, FiniteSets, TLC

VARIABLES
    epsilon,            \* useState(0.2), millionths
    grid,               \* useState([]): sequence of rows, <<>> before mount
    agentPos,           \* useState([0,0]): <<row, col>>, 0-based
    qTable,             \* useState({}): state key -> [action -> value]
    isRunning,          \* useState(false)
    currentPath,        \* useState([]): sequence of PathStep
    optimalPath,        \* useState([]): sequence of positions
    savedPaths,         \* useState([]): sequence of SavedPath
    showOptimalPath,    \* useState(false)
    stepCount,          \* useState(0)
    episodeCount,       \* useState(0)
    totalReward,        \* useState(0), tenths
    bestEpisodeReward,  \* useState(-Infinity), tenths
    pendingResets,      \* number of setTimeout callbacks of step not yet run
    phase,              \* history: "active", or "settling" from a terminal step
                        \*   until the agent is put back on the start cell
    episodesDone,       \* history: episodes completed (terminal reached while
                        \*   active) since the last reset
    bestDone,           \* history: largest total reward of those episodes
    justSaved,          \* history: the latest handler to change the state was
                        \*   saveCurrentPath, appending an entry
    stepsSincePlaced    \* history: steps executed since useState([0,0]),
                        \*   reset or the timeout put the agent on (0,0)

vars == <<epsilon, grid, agentPos, qTable, isRunning, currentPath, optimalPath,
          savedPaths, showOptimalPath, stepCount, episodeCount, totalReward,
          bestEpisodeReward, pendingResets, phase, episodesDone, bestDone,
          justSaved, stepsSincePlaced>>

----------------------------------------------------------------------------
\* Bounds of the model
MaxSteps == 4        \* steps of one run under free exploration (Spec)
MaxSaved == 2        \* entries of the saved-path history
MaxPending == 2      \* setTimeout callbacks in flight
MaxEpisodes == 600   \* episodes over which epsilon's decay is followed

----------------------------------------------------------------------------
\* Constants of the component
GRID_SIZE == 5
\* ACTIONS of the source (ACTIONS is a reserved word of TLA+)
Actions == <<"up", "down", "left", "right">>
ActionSet == {Actions[i] : i \in 1..Len(Actions)}

NegInfinity == -2000000000

\* alpha = 0.1 and gamma = 0.9, in tenths
alpha == 1
gamma == 9
\* epsilon in millionths; epsilonDecay = 0.995 in thousandths
initialEpsilon == 200000
epsilonDecay == 995
minEpsilon == 10000
\* rewards in tenths
gemReward == 100
skullReward == -100
moveReward == -1
\* millionths per tenth: a reward as a Q value
QUnit == 100000
\* a wrong cap
maxStepsRaised == 50 + 5
maxSteps == 50

Max(a, b) == IF a >= b THEN a ELSE b
Min(a, b) == IF a <= b THEN a ELSE b

Positions == (0..(GRID_SIZE - 1)) \X (0..(GRID_SIZE - 1))

----------------------------------------------------------------------------
\* Environment

initializeGrid ==
    [i \in 1..GRID_SIZE |-> [j \in 1..GRID_SIZE |->
        IF <<i - 1, j - 1>> = <<0, 0>> THEN "start"
        ELSE IF <<i - 1, j - 1>> = <<4, 4>> THEN "gem"
        ELSE IF <<i - 1, j - 1>> \in {<<2, 2>>, <<1, 3>>, <<3, 1>>} THEN "skull"
        ELSE ""]]

\* the grid of the first render, which calculateOptimalPath's closure keeps
firstRenderGrid == <<>>

\* `${pos[0]},${pos[1]}`, tabulated once for the positions of the grid
Digit == <<"0", "1", "2", "3", "4">>
stateKeys == [pos \in Positions |-> Digit[pos[1] + 1] \o "," \o Digit[pos[2] + 1]]
getStateKey(pos) == stateKeys[pos]

\* 'up' without Math.max
getNextPositionNoClamp(pos, action) ==
    CASE action = "up"    -> <<pos[1] - 1, pos[2]>>
      [] action = "down"  -> <<Min(pos[1] + 1, GRID_SIZE - 1), pos[2]>>
      [] action = "left"  -> <<pos[1], Max(pos[2] - 1, 0)>>
      [] action = "right" -> <<pos[1], Min(pos[2] + 1, GRID_SIZE - 1)>>
      [] OTHER            -> pos

getNextPosition(pos, action) ==
    CASE action = "up"    -> <<Max(pos[1] - 1, 0), pos[2]>>
      [] action = "down"  -> <<Min(pos[1] + 1, GRID_SIZE - 1), pos[2]>>
      [] action = "left"  -> <<pos[1], Max(pos[2] - 1, 0)>>
      [] action = "right" -> <<pos[1], Min(pos[2] + 1, GRID_SIZE - 1)>>
      [] OTHER            -> pos

cellAt(g, pos) == g[pos[1] + 1][pos[2] + 1]

\* getReward with the skull taken for an ordinary cell
getRewardNoSkull(g, pos) ==
    IF Len(g) = 0 THEN 0
    ELSE IF cellAt(g, pos) = "gem" THEN gemReward
    ELSE moveReward

getReward(g, pos) ==
    IF Len(g) = 0 THEN 0
    ELSE IF cellAt(g, pos) = "gem" THEN gemReward
    ELSE IF cellAt(g, pos) = "skull" THEN skullReward
    ELSE moveReward

isTerminalState(g, pos) ==
    IF Len(g) = 0 THEN FALSE
    ELSE cellAt(g, pos) = "gem" \/ cellAt(g, pos) = "skull"

----------------------------------------------------------------------------
\* Q-table

emptyQTable == [k \in {} |-> [a \in ActionSet |-> 0]]
zeroRow == [a \in ActionSet |-> 0]

\* the default row with 'right' left out
ensureStateThree(q, key) ==
    [k \in (DOMAIN q) \cup {key} |->
        IF k \in DOMAIN q THEN q[k]
        ELSE [a \in ActionSet \ {"right"} |-> 0]]

\* if (!q[key]) { q[key] = {}; Actions.forEach(a => q[key][a] = 0) }
ensureState(q, key) ==
    [k \in (DOMAIN q) \cup {key} |-> IF k \in DOMAIN q THEN q[k] ELSE zeroRow]

\* the scan with q >= maxQ: the last maximal action wins
RECURSIVE scanBestLast(_, _, _, _)
scanBestLast(row, i, maxQ, bestAction) ==
    IF i > Len(Actions) THEN bestAction
    ELSE IF row[Actions[i]] >= maxQ
         THEN scanBestLast(row, i + 1, row[Actions[i]], Actions[i])
         ELSE scanBestLast(row, i + 1, maxQ, bestAction)

\* Actions.forEach(a => { if (q > maxQ) { maxQ = q; bestAction = a } })
RECURSIVE scanBest(_, _, _, _)
scanBest(row, i, maxQ, bestAction) ==
    IF i > Len(Actions) THEN bestAction
    ELSE IF row[Actions[i]] > maxQ
         THEN scanBest(row, i + 1, row[Actions[i]], Actions[i])
         ELSE scanBest(row, i + 1, maxQ, bestAction)

greedyAction(row) == scanBest(row, 1, NegInfinity, Actions[1])

\* Math.max(...Actions.map(a => q[key][a] || 0))
maxQOf(row) ==
    CHOOSE m \in {row[a] : a \in ActionSet} : \A a \in ActionSet : row[a] <= m

\* the update with a learning rate of 1
qUpdateFullRate(oldQ, reward, maxQNext) ==
    oldQ + (10 * (reward * QUnit + (gamma * maxQNext) \div 10 - oldQ)) \div 10

\* oldQ + alpha * (reward + gamma * maxQNext - oldQ)
qUpdate(oldQ, reward, maxQNext) ==
    oldQ + (alpha * (reward * QUnit + (gamma * maxQNext) \div 10 - oldQ)) \div 10

\* the decay without Math.max(..., minEpsilon)
decayEpsilonNoFloor(prev) == (prev * epsilonDecay) \div 1000
\* the decay with a factor of 0.95
decayEpsilonFast(prev) == Max((prev * 950) \div 1000, minEpsilon)

decayEpsilon(prev) == Max((prev * epsilonDecay) \div 1000, minEpsilon)

\* setEpsilon(prev => ...) applied k times (each value is evaluated before
\* the next decay is applied to it)
RECURSIVE decayTimes(_, _)
decayTimes(prev, k) ==
    IF k = 0 THEN prev
    ELSE LET next == decayEpsilon(prev)
         IN  IF next \in Int THEN decayTimes(next, k - 1) ELSE next

\* epsilon after n completed episodes without a reset (computed in blocks of
\* 25 episodes, each block's start value evaluated before the block is, to
\* keep the evaluation shallow)
RECURSIVE epsilonAfter(_)
epsilonAfter(n) ==
    IF n < 25 THEN decayTimes(initialEpsilon, n)
    ELSE LET before == epsilonAfter(n - 25)
         IN  IF before \in Int THEN decayTimes(before, 25) ELSE before

----------------------------------------------------------------------------
\* PathTracker

RECURSIVE sumRewards(_)
sumRewards(path) ==
    IF path = <<>> THEN 0
    ELSE path[1].reward + sumRewards(Tail(path))

\* the while loop of calculateOptimalPath; isTerminalState is the one the
\* closure captured at the first render.  pushed is the path after
\* path.push(currentPos); taking its length (never 0) evaluates it before the
\* next iteration
RECURSIVE optimalPathLoop(_, _, _, _)
optimalPathLoop(q, currentPos, steps, path) ==
    IF ~isTerminalState(firstRenderGrid, currentPos) /\ steps < maxSteps
    THEN LET pushed == Append(path, currentPos)
         IN  IF getStateKey(currentPos) \notin DOMAIN q \/ Len(pushed) = 0
             THEN <<currentPos, pushed>>
             ELSE optimalPathLoop(q,
                      getNextPosition(currentPos, greedyAction(q[getStateKey(currentPos)])),
                      steps + 1, pushed)
    ELSE <<currentPos, path>>

calculateOptimalPath(q) ==
    LET r == optimalPathLoop(q, <<0, 0>>, 0, <<>>)
    IN  IF isTerminalState(firstRenderGrid, r[1]) THEN Append(r[2], r[1]) ELSE r[2]

----------------------------------------------------------------------------
\* Initial state: the values of the useState calls, no timer pending

Init ==
    /\ epsilon = initialEpsilon
    /\ grid = <<>>
    /\ agentPos = <<0, 0>>
    /\ qTable = emptyQTable
    /\ isRunning = FALSE
    /\ currentPath = <<>>
    /\ optimalPath = <<>>
    /\ savedPaths = <<>>
    /\ showOptimalPath = FALSE
    /\ stepCount = 0
    /\ episodeCount = 0
    /\ totalReward = 0
    /\ bestEpisodeReward = NegInfinity
    /\ pendingResets = 0
    /\ phase = "active"
    /\ episodesDone = 0
    /\ bestDone = NegInfinity
    /\ justSaved = FALSE
    /\ stepsSincePlaced = 0

\* useEffect(() => setGrid(initializeGrid()), [initializeGrid])
Mount ==
    /\ Len(grid) = 0
    /\ grid' = initializeGrid
    /\ UNCHANGED <<epsilon, agentPos, qTable, isRunning, currentPath, optimalPath,
                   savedPaths, showOptimalPath, stepCount, episodeCount,
                   totalReward, bestEpisodeReward, pendingResets, phase,
                   episodesDone, bestDone, justSaved, stepsSincePlaced>>

\* step(), with the outcome of chooseAction's Math.random() calls as inputs:
\* explore is Math.random() < epsilon, randomAction the action drawn then
stepWith(explore, randomAction) ==
    IF Len(grid) = 0
    THEN UNCHANGED vars
    ELSE
      LET currentState == agentPos
          stateKey     == getStateKey(currentState)
          q0           == ensureState(qTable, stateKey)
          action       == IF explore THEN randomAction ELSE greedyAction(q0[stateKey])
          nextState    == getNextPosition(currentState, action)
          reward       == getReward(grid, nextState)
          nextStateKey == getStateKey(nextState)
          q1           == ensureState(q0, nextStateKey)
          maxQNext     == maxQOf(q1[nextStateKey])
          oldQ         == q1[stateKey][action]
          newQ         == qUpdate(oldQ, reward, maxQNext)
          newQTable    == [q1 EXCEPT ![stateKey][action] = newQ]
          episodeReward == sumRewards(currentPath) + reward
      IN  /\ qTable' = newQTable
          /\ currentPath' = Append(currentPath,
                 [position |-> currentState, action |-> action, reward |-> reward])
          /\ agentPos' = nextState
          /\ stepCount' = stepCount + 1
          /\ totalReward' = totalReward + reward
          /\ IF isTerminalState(grid, nextState)
             THEN /\ bestEpisodeReward' =
                        IF episodeReward > bestEpisodeReward
                        THEN episodeReward ELSE bestEpisodeReward
                  /\ episodeCount' = episodeCount + 1
                  /\ epsilon' = decayEpsilon(epsilon)
                  /\ optimalPath' = calculateOptimalPath(newQTable)
                  /\ pendingResets' = pendingResets + 1
                  /\ phase' = "settling"
                  /\ IF phase = "active"
                     THEN /\ episodesDone' = episodesDone + 1
                          /\ bestDone' = Max(bestDone, episodeReward)
                     ELSE UNCHANGED <<episodesDone, bestDone>>
             ELSE UNCHANGED <<bestEpisodeReward, episodeCount, epsilon,
                              optimalPath, pendingResets, phase, episodesDone,
                              bestDone>>
          /\ justSaved' = FALSE
          /\ stepsSincePlaced' = stepsSincePlaced + 1
          /\ UNCHANGED <<grid, isRunning, savedPaths, showOptimalPath>>

\* onClick={step}; Math.random() can fall either side of epsilon, which is
\* never 0 or 1, and can draw any action
Step ==
    /\ stepCount < MaxSteps
    /\ pendingResets < MaxPending
    /\ \E explore \in BOOLEAN : \E randomAction \in ActionSet :
           stepWith(explore, randomAction)

\* setInterval(step, 300) while isRunning
Tick ==
    /\ isRunning
    /\ stepCount < MaxSteps
    /\ pendingResets < MaxPending
    /\ \E explore \in BOOLEAN : \E randomAction \in ActionSet :
           stepWith(explore, randomAction)

\* the timeout's callback without setCurrentPath([])
ReturnToStartKeepsPath ==
    /\ pendingResets > 0
    /\ agentPos' = <<0, 0>>
    /\ pendingResets' = pendingResets - 1
    /\ phase' = "active"
    /\ justSaved' = FALSE
    /\ stepsSincePlaced' = 0
    /\ UNCHANGED <<epsilon, grid, qTable, isRunning, currentPath, optimalPath,
                   savedPaths, showOptimalPath, stepCount, episodeCount,
                   totalReward, bestEpisodeReward, episodesDone, bestDone>>

\* the timeout's callback without setAgentPos([0, 0])
ReturnToStartStaysPut ==
    /\ pendingResets > 0
    /\ currentPath' = <<>>
    /\ pendingResets' = pendingResets - 1
    /\ phase' = "active"
    /\ justSaved' = FALSE
    /\ UNCHANGED <<epsilon, grid, agentPos, qTable, isRunning, optimalPath,
                   savedPaths, showOptimalPath, stepCount, episodeCount,
                   totalReward, bestEpisodeReward, episodesDone, bestDone,
                   stepsSincePlaced>>

\* the timeout's callback also discarding the Q-table
ReturnToStartClearsQ ==
    /\ pendingResets > 0
    /\ agentPos' = <<0, 0>>
    /\ currentPath' = <<>>
    /\ qTable' = emptyQTable
    /\ pendingResets' = pendingResets - 1
    /\ phase' = "active"
    /\ justSaved' = FALSE
    /\ stepsSincePlaced' = 0
    /\ UNCHANGED <<epsilon, grid, isRunning, optimalPath, savedPaths,
                   showOptimalPath, stepCount, episodeCount, totalReward,
                   bestEpisodeReward, episodesDone, bestDone>>

\* the timeout's callback also publishing a fresh optimal path
ReturnToStartRecomputes ==
    /\ pendingResets > 0
    /\ agentPos' = <<0, 0>>
    /\ currentPath' = <<>>
    /\ optimalPath' = calculateOptimalPath(qTable)
    /\ pendingResets' = pendingResets - 1
    /\ phase' = "active"
    /\ justSaved' = FALSE
    /\ stepsSincePlaced' = 0
    /\ UNCHANGED <<epsilon, grid, qTable, isRunning, savedPaths,
                   showOptimalPath, stepCount, episodeCount, totalReward,
                   bestEpisodeReward, episodesDone, bestDone>>

\* the callback of step's setTimeout(..., 500)
ReturnToStart ==
    /\ pendingResets > 0
    /\ agentPos' = <<0, 0>>
    /\ currentPath' = <<>>
    /\ pendingResets' = pendingResets - 1
    /\ phase' = "active"
    /\ justSaved' = FALSE
    /\ stepsSincePlaced' = 0
    /\ UNCHANGED <<epsilon, grid, qTable, isRunning, optimalPath, savedPaths,
                   showOptimalPath, stepCount, episodeCount, totalReward,
                   bestEpisodeReward, episodesDone, bestDone>>

toggleSimulation ==
    /\ isRunning' = ~isRunning
    /\ justSaved' = FALSE
    /\ UNCHANGED <<epsilon, grid, agentPos, qTable, currentPath, optimalPath,
                   savedPaths, showOptimalPath, stepCount, episodeCount,
                   totalReward, bestEpisodeReward, pendingResets, phase,
                   episodesDone, bestDone, stepsSincePlaced>>

\* reset without setEpsilon(0.2)
resetKeepsEpsilon ==
    /\ isRunning' = FALSE
    /\ agentPos' = <<0, 0>>
    /\ qTable' = emptyQTable
    /\ currentPath' = <<>>
    /\ optimalPath' = <<>>
    /\ stepCount' = 0
    /\ episodeCount' = 0
    /\ totalReward' = 0
    /\ bestEpisodeReward' = NegInfinity
    /\ grid' = initializeGrid
    /\ phase' = "active"
    /\ episodesDone' = 0
    /\ bestDone' = NegInfinity
    /\ justSaved' = FALSE
    /\ stepsSincePlaced' = 0
    /\ UNCHANGED <<epsilon, savedPaths, showOptimalPath, pendingResets>>

\* reset that also empties the saved-path history
resetClearsSaved ==
    /\ isRunning' = FALSE
    /\ agentPos' = <<0, 0>>
    /\ qTable' = emptyQTable
    /\ currentPath' = <<>>
    /\ optimalPath' = <<>>
    /\ stepCount' = 0
    /\ episodeCount' = 0
    /\ totalReward' = 0
    /\ bestEpisodeReward' = NegInfinity
    /\ epsilon' = initialEpsilon
    /\ grid' = initializeGrid
    /\ savedPaths' = <<>>
    /\ phase' = "active"
    /\ episodesDone' = 0
    /\ bestDone' = NegInfinity
    /\ justSaved' = FALSE
    /\ stepsSincePlaced' = 0
    /\ UNCHANGED <<showOptimalPath, pendingResets>>

reset ==
    /\ isRunning' = FALSE
    /\ agentPos' = <<0, 0>>
    /\ qTable' = emptyQTable
    /\ currentPath' = <<>>
    /\ optimalPath' = <<>>
    /\ stepCount' = 0
    /\ episodeCount' = 0
    /\ totalReward' = 0
    /\ bestEpisodeReward' = NegInfinity
    /\ epsilon' = initialEpsilon
    /\ grid' = initializeGrid
    /\ phase' = "active"
    /\ episodesDone' = 0
    /\ bestDone' = NegInfinity
    /\ justSaved' = FALSE
    /\ stepsSincePlaced' = 0
    /\ UNCHANGED <<savedPaths, showOptimalPath, pendingResets>>

\* saveCurrentPath without the early return on an empty trajectory
saveCurrentPathNoGuard ==
    /\ Len(savedPaths) < MaxSaved
    /\ savedPaths' = Append(savedPaths,
            [name |-> Len(savedPaths) + 1,
             steps |-> currentPath,
             totalReward |-> sumRewards(currentPath)])
    /\ justSaved' = TRUE
    /\ UNCHANGED <<epsilon, grid, agentPos, qTable, isRunning, currentPath,
                   optimalPath, showOptimalPath, stepCount, episodeCount,
                   totalReward, bestEpisodeReward, pendingResets, phase,
                   episodesDone, bestDone, stepsSincePlaced>>

saveCurrentPath ==
    /\ Len(savedPaths) < MaxSaved
    /\ IF Len(currentPath) = 0
       THEN UNCHANGED <<savedPaths, justSaved>>
       ELSE /\ savedPaths' = Append(savedPaths,
                    [name |-> Len(savedPaths) + 1,
                     steps |-> currentPath,
                     totalReward |-> sumRewards(currentPath)])
            /\ justSaved' = TRUE
    /\ UNCHANGED <<epsilon, grid, agentPos, qTable, isRunning, currentPath,
                   optimalPath, showOptimalPath, stepCount, episodeCount,
                   totalReward, bestEpisodeReward, pendingResets, phase,
                   episodesDone, bestDone, stepsSincePlaced>>

\* showOptimalRoute without the test of the Q-table
showOptimalRouteNoGuard ==
    /\ optimalPath' = calculateOptimalPath(qTable)
    /\ showOptimalPath' = TRUE
    /\ justSaved' = FALSE
    /\ UNCHANGED <<epsilon, grid, agentPos, qTable, isRunning, currentPath,
                   savedPaths, stepCount, episodeCount, totalReward,
                   bestEpisodeReward, pendingResets, phase, episodesDone,
                   bestDone, stepsSincePlaced>>

showOptimalRoute ==
    /\ IF Cardinality(DOMAIN qTable) > 0
       THEN /\ optimalPath' = calculateOptimalPath(qTable)
            /\ showOptimalPath' = TRUE
            /\ justSaved' = FALSE
       ELSE UNCHANGED <<optimalPath, showOptimalPath, justSaved>>
    /\ UNCHANGED <<epsilon, grid, agentPos, qTable, isRunning, currentPath,
                   savedPaths, stepCount, episodeCount, totalReward,
                   bestEpisodeReward, pendingResets, phase, episodesDone,
                   bestDone, stepsSincePlaced>>

\* onClick={() => setShowOptimalPath(false)}
hideOptimalPath ==
    /\ showOptimalPath' = FALSE
    /\ justSaved' = FALSE
    /\ UNCHANGED <<epsilon, grid, agentPos, qTable, isRunning, currentPath,
                   optimalPath, savedPaths, stepCount, episodeCount, totalReward,
                   bestEpisodeReward, pendingResets, phase, episodesDone,
                   bestDone, stepsSincePlaced>>

----------------------------------------------------------------------------
\* Spec: the engine under free exploration.  savedPaths is written by
\* saveCurrentPath alone and read by no other handler; the runs that save
\* paths are those of SpecSave.

Next ==
    \/ Mount
    \/ Step
    \/ Tick
    \/ ReturnToStart
    \/ toggleSimulation
    \/ reset
    \/ showOptimalRoute
    \/ hideOptimalPath

Spec == Init /\ [][Next]_vars

----------------------------------------------------------------------------
\* SpecTrain: one long training run.  Every step explores (Math.random() <
\* epsilon) and the action drawn is the next one of TrainingScript: along the
\* left and bottom edges to the gem and once more against the bottom edge;
\* then down column 0 and right to the skull at (3,1), back up column 1 to
\* row 0, left to the start cell and twice against its edges.

TrainingScript ==
    <<"down", "down", "down", "down", "right", "right", "right", "right",
      "down",
      "down", "down", "down", "right",
      "up", "up", "up", "up", "left", "up", "left">>

TrainStep ==
    /\ stepCount < Len(TrainingScript)
    /\ pendingResets < MaxPending
    /\ stepWith(TRUE, TrainingScript[stepCount + 1])

TrainTick ==
    /\ isRunning
    /\ stepCount < Len(TrainingScript)
    /\ pendingResets < MaxPending
    /\ stepWith(TRUE, TrainingScript[stepCount + 1])

NextTrain ==
    \/ Mount
    \/ TrainStep
    \/ TrainTick
    \/ ReturnToStart
    \/ toggleSimulation
    \/ reset
    \/ showOptimalRoute
    \/ hideOptimalPath

SpecTrain == Init /\ [][NextTrain]_vars

\* SpecTrainFair: the training run with the timer's guarantee.  A timeout
\* set by step (setTimeout, 500 ms) is never cleared, so its callback runs.
SpecTrainFair == Init /\ [][NextTrain]_vars /\ WF_vars(ReturnToStart)

----------------------------------------------------------------------------
\* SpecLearn: two runs towards the gem.  Every step explores and the action
\* drawn is the next one of LearnScript: along the left and bottom edges to
\* the gem, then the same way again up to the cell before the gem, whose
\* value the first episode has raised.

LearnScript ==
    <<"down", "down", "down", "down", "right", "right", "right", "right",
      "down", "down", "down", "down", "right", "right", "right">>

LearnStep ==
    /\ stepCount < Len(LearnScript)
    /\ pendingResets < MaxPending
    /\ stepWith(TRUE, LearnScript[stepCount + 1])

LearnTick ==
    /\ isRunning
    /\ stepCount < Len(LearnScript)
    /\ pendingResets < MaxPending
    /\ stepWith(TRUE, LearnScript[stepCount + 1])

NextLearn ==
    \/ Mount
    \/ LearnStep
    \/ LearnTick
    \/ ReturnToStart
    \/ toggleSimulation
    \/ reset
    \/ showOptimalRoute
    \/ hideOptimalPath

SpecLearn == Init /\ [][NextLearn]_vars

----------------------------------------------------------------------------
\* SpecSave: all handlers, saveCurrentPath included, over a short run that
\* ends on the skull at (3,1).

SaveScript == <<"down", "down", "down", "right">>

SaveRunStep ==
    /\ stepCount < Len(SaveScript)
    /\ pendingResets < MaxPending
    /\ stepWith(TRUE, SaveScript[stepCount + 1])

SaveRunTick ==
    /\ isRunning
    /\ stepCount < Len(SaveScript)
    /\ pendingResets < MaxPending
    /\ stepWith(TRUE, SaveScript[stepCount + 1])

NextSave ==
    \/ Mount
    \/ SaveRunStep
    \/ SaveRunTick
    \/ ReturnToStart
    \/ toggleSimulation
    \/ reset
    \/ saveCurrentPath
    \/ showOptimalRoute
    \/ hideOptimalPath

SpecSave == Init /\ [][NextSave]_vars

----------------------------------------------------------------------------
\* Properties

\* the cells that end an episode, read off the grid of initializeGrid
TerminalCells == {pos \in Positions : isTerminalState(initializeGrid, pos)}

\* a transition is a step() that took effect
StepTaken == stepCount' = stepCount + 1

\* a transition is a reset(): the handler itself, or the Q-table was emptied
ResetTaken == reset \/ (DOMAIN qTable # {} /\ DOMAIN qTable' = {})

\* C1: step() is never executed while a return-to-start is pending; every
\* step is taken from a non-terminal cell.  The trajectory records the cell
\* each step was taken from.
C1_StepsOnlyFromNonTerminal ==
    \A i \in 1..Len(currentPath) : currentPath[i].position \notin TerminalCells

\* C2: getNextPosition maps every grid position and action into the grid, and
\* the agent is inside the grid in every reachable state.
C2_PositionInGrid ==
    /\ \A pos \in Positions : \A a \in ActionSet :
           getNextPosition(pos, a) \in Positions
    /\ agentPos \in Positions

\* C2 witness: a step against the top edge left the agent on row 0
C2_Witness ==
    /\ Len(currentPath) > 0
    /\ currentPath[Len(currentPath)].position = <<0, 2>>
    /\ currentPath[Len(currentPath)].action = "up"
    /\ agentPos = <<0, 2>>

\* C3: epsilon lies in [0.01, 0.2] in every reachable state, and so does the
\* value it takes after any number of episodes up to MaxEpisodes.
C3_DecayInRange ==
    \A n \in 0..MaxEpisodes :
        epsilonAfter(n) >= 10000 /\ epsilonAfter(n) <= 200000

C3_EpsilonInRange ==
    /\ epsilon >= 10000 /\ epsilon <= 200000
    /\ C3_DecayInRange

\* C3 witness: an episode has decayed epsilon, and the decay reaches the floor
\* within MaxEpisodes
C3_Witness ==
    /\ episodeCount = 1
    /\ epsilon = 199000
    /\ epsilonAfter(MaxEpisodes) = 10000

\* C4: a step that does not land on a terminal cell leaves epsilon unchanged,
\* a step that lands on one sets it to max(epsilon * 0.995, 0.01), nothing
\* but such a step or reset() changes it, and it only rises by reset() to 0.2.
C4_DecayChain ==
    \A n \in 0..(MaxEpisodes - 1) :
        /\ epsilonAfter(n + 1) = Max((epsilonAfter(n) * 995) \div 1000, 10000)
        /\ epsilonAfter(n + 1) <= epsilonAfter(n)

C5_ResetRestores ==
    [][ ResetTaken =>
          /\ stepCount' = 0
          /\ episodeCount' = 0
          /\ totalReward' = 0
          /\ epsilon' = 200000
          /\ bestEpisodeReward' = NegInfinity
          /\ agentPos' = <<0, 0>>
          /\ currentPath' = <<>>
          /\ optimalPath' = <<>>
          /\ DOMAIN qTable' = {}
          /\ isRunning' = FALSE
      ]_vars

\* C5 witness: reset() ran while a return-to-start was pending (only a
\* terminal step schedules one, and only reset() empties the Q-table after it)
C5_Witness ==
    /\ pendingResets > 0
    /\ DOMAIN qTable = {}
    /\ stepCount = 0
    /\ epsilon = 200000
    /\ agentPos = <<0, 0>>

\* C6: the episode count goes up by one on each step that lands on a terminal
\* cell and on no other step, hence it equals the number of start-to-terminal
\* episodes completed since the last reset.
C6_EpisodeCountIsEpisodes ==
    episodeCount = episodesDone

\* C7: the best-episode reward is -Infinity until an episode completes and
\* otherwise the largest total reward of the episodes completed since the
\* last reset.
C7_BestIsMaxEpisodeTotal ==
    bestEpisodeReward = bestDone

\* C8: calculateOptimalPath terminates with at most 51 positions, for the
\* Q-table of every reachable state and for every path it has published.
C8_OptimalPathBounded ==
    /\ Len(optimalPath) <= 51
    /\ Len(calculateOptimalPath(qTable)) <= 51

\* C8 witness: a greedy policy that cycles ran into the cap
C8_Witness ==
    /\ Len(optimalPath) = 50
    /\ optimalPath[50] \notin TerminalCells

\* C9: the optimal path starts at (0,0) and stops at the first terminal cell:
\* a gem or skull cell is its last element or does not occur.
C9_TerminalOnlyLast ==
    /\ optimalPath # <<>> => optimalPath[1] = <<0, 0>>
    /\ \A i \in 1..(Len(optimalPath) - 1) : optimalPath[i] \notin TerminalCells

\* C10: saveCurrentPath() with an empty trajectory changes nothing; with a
\* non-empty one it appends one entry holding the trajectory and the sum of
\* its rewards, and changes nothing else.
C10_RewardSum(steps) ==
    LET partial[i \in 0..Len(steps)] ==
            IF i = 0 THEN 0 ELSE partial[i - 1] + steps[i].reward
    IN  partial[Len(steps)]

C10_SaveAppendsOrNothing ==
    [][ /\ Len(currentPath) = 0 => savedPaths' = savedPaths
        /\ saveCurrentPath /\ Len(currentPath) = 0 => UNCHANGED vars
        /\ savedPaths' # savedPaths =>
              /\ Len(savedPaths') = Len(savedPaths) + 1
              /\ SubSeq(savedPaths', 1, Len(savedPaths)) = savedPaths
              /\ savedPaths'[Len(savedPaths')].steps = currentPath
              /\ savedPaths'[Len(savedPaths')].totalReward = C10_RewardSum(currentPath)
              /\ UNCHANGED <<epsilon, grid, agentPos, qTable, isRunning,
                             currentPath, optimalPath, showOptimalPath,
                             stepCount, episodeCount, totalReward,
                             bestEpisodeReward>>
      ]_vars

\* C10 witness: the trajectory of an episode that ended on the skull was saved
C10_Witness ==
    /\ Len(savedPaths) = 1
    /\ Len(savedPaths[1].steps) = 4
    /\ savedPaths[1].steps = currentPath
    /\ savedPaths[1].totalReward = -103

\* C11: when saveCurrentPath() is invoked twice in succession with no step()
\* in between, the first invocation appends one entry and the second leaves
\* the saved-path history unchanged.
C11_SecondSaveIsNoOp ==
    [][ /\ (~justSaved /\ justSaved') => Len(savedPaths') = Len(savedPaths) + 1
        /\ (justSaved /\ saveCurrentPath) => savedPaths' = savedPaths
      ]_vars

\* C12: the saved-path history is append-only: no handler and no timer
\* removes, reorders or edits an entry; every saved entry stays at its index
\* with its steps and total reward.
C12_HistoryAppendOnly ==
    [][ /\ Len(savedPaths') >= Len(savedPaths)
        /\ \A i \in 1..Len(savedPaths) :
               /\ savedPaths'[i].steps = savedPaths[i].steps
               /\ savedPaths'[i].totalReward = savedPaths[i].totalReward
               /\ savedPaths'[i].name = savedPaths[i].name
      ]_vars

\* C12 witness: a finished episode was saved, then came reset() and two steps
\* of a new run
C12_Witness ==
    /\ Len(savedPaths) = 1
    /\ Len(savedPaths[1].steps) = 4
    /\ savedPaths[1].totalReward = -103
    /\ stepCount = 2
    /\ Len(currentPath) = 2

\* C13: showOptimalPath() invoked while the Q-table is empty changes nothing:
\* the display flag, the published optimal path, the Q-table, the agent
\* position, the counters and the trajectory stay as they are; while the
\* Q-table is empty nothing turns the display flag on.
C13_ShowOnEmptyIsNoOp ==
    [][ DOMAIN qTable = {} =>
          /\ showOptimalRoute =>
                /\ showOptimalPath' = showOptimalPath
                /\ optimalPath' = optimalPath
                /\ qTable' = qTable
                /\ agentPos' = agentPos
                /\ stepCount' = stepCount
                /\ episodeCount' = episodeCount
                /\ totalReward' = totalReward
                /\ bestEpisodeReward' = bestEpisodeReward
                /\ epsilon' = epsilon
                /\ currentPath' = currentPath
                /\ savedPaths' = savedPaths
                /\ isRunning' = isRunning
          /\ showOptimalPath' => showOptimalPath
      ]_vars

\* C13 witness: the Q-table is empty after reset() while the display flag,
\* which reset() leaves alone, is still on from before
C13_Witness ==
    /\ Len(grid) > 0
    /\ DOMAIN qTable = {}
    /\ showOptimalPath
    /\ optimalPath = <<>>

\* C14: on the grid the reward of a position is +10 iff it is the gem cell
\* (4,4), -10 iff it is one of the skull cells (2,2), (1,3), (3,1), and -0.1
\* otherwise; the reward recorded by every executed step is the reward of the
\* position the step moved to (the position the next step was taken from,
\* or the agent's position for the latest step).
C14_RewardOf(pos) ==
    IF pos = <<4, 4>> THEN 100
    ELSE IF pos \in {<<2, 2>>, <<1, 3>>, <<3, 1>>} THEN -100
    ELSE -1

C14_RewardOfLandingCell ==
    /\ \A pos \in Positions :
           /\ getReward(initializeGrid, pos) = C14_RewardOf(pos)
           /\ getReward(initializeGrid, pos) = 100 <=> pos = <<4, 4>>
           /\ getReward(initializeGrid, pos) = -100 <=>
                  pos \in {<<2, 2>>, <<1, 3>>, <<3, 1>>}
    /\ \A i \in 1..Len(currentPath) :
           currentPath[i].reward =
               C14_RewardOf(IF i < Len(currentPath)
                            THEN currentPath[i + 1].position
                            ELSE agentPos)

\* C14 witness: three moves at -0.1 and a fourth onto the skull at (2,2)
C14_Witness ==
    /\ Len(currentPath) = 4
    /\ agentPos = <<2, 2>>
    /\ currentPath[4].reward = -100
    /\ currentPath[1].reward = -1
    /\ totalReward = -103

\* C15: in every reachable state the length of the trajectory in progress is
\* the number of steps executed since the agent was last placed on the start
\* cell, by the initial state, by reset() or by the deferred return-to-start.
C15_PathLengthIsStepsSincePlaced ==
    Len(currentPath) = stepsSincePlaced

\* C15 witness: after reset() and two steps the return-to-start of the episode
\* before the reset put the agent on the start cell; one step has run since
C15_Witness ==
    /\ stepCount = 3
    /\ episodeCount = 0
    /\ pendingResets = 0
    /\ DOMAIN qTable # {}
    /\ Len(currentPath) = 1
    /\ currentPath[1].position = <<0, 0>>
    /\ stepsSincePlaced = 1

\* C16: every step that lands the agent on a terminal cell is eventually
\* followed by a state in which the agent is on the start cell (0,0) and the
\* trajectory is empty: the settling phase always returns to active.
C16_SettlingReturnsToActive ==
    (phase = "settling" /\ agentPos \in TerminalCells /\ pendingResets > 0)
        ~> (agentPos = <<0, 0>> /\ currentPath = <<>> /\ phase = "active")

\* C16 witness: the episode that ended on the gem has been returned to the
\* start cell by its timeout
C16_Witness ==
    /\ stepCount = 8
    /\ episodeCount = 1
    /\ DOMAIN qTable # {}
    /\ pendingResets = 0
    /\ phase = "active"
    /\ agentPos = <<0, 0>>
    /\ currentPath = <<>>

\* C17: a step from position s with action a, reward r and next position s'
\* sets Q[s][a] to old + 0.1 * (r + 0.9 * max_b Q[s'][b] - old), the maximum
\* being that of the values before the write and absent values counting as
\* 0; every other (state, action) value keeps its value, the rows of s and
\* s' appearing with 0 where they were absent.
C17_ValueBefore(key, a) ==
    IF key \in DOMAIN qTable THEN qTable[key][a] ELSE 0

C17_MaxBefore(key) ==
    CHOOSE m \in {C17_ValueBefore(key, b) : b \in ActionSet} :
        \A b \in ActionSet : C17_ValueBefore(key, b) <= m

C17_QUpdateRule ==
    [][ StepTaken =>
          LET last == currentPath'[Len(currentPath')]
              s    == getStateKey(agentPos)
              sn   == getStateKey(agentPos')
              old  == C17_ValueBefore(s, last.action)
              target == last.reward * 100000 + (9 * C17_MaxBefore(sn)) \div 10
          IN  /\ last.position = agentPos
              /\ DOMAIN qTable' = DOMAIN qTable \cup {s, sn}
              /\ qTable'[s][last.action] = old + (target - old) \div 10
              /\ \A key \in DOMAIN qTable' : \A b \in ActionSet :
                     (key # s \/ b # last.action) =>
                         qTable'[key][b] = C17_ValueBefore(key, b)
      ]_vars

\* C17 witness: the step from (4,2) into (4,3), whose best value is the 1.0
\* learned at the gem, raised Q[(4,2)][right] from -0.01 to 0.071
C17_Witness ==
    /\ agentPos = <<4, 3>>
    /\ Len(currentPath) > 0
    /\ currentPath[Len(currentPath)].position = <<4, 2>>
    /\ "4,3" \in DOMAIN qTable
    /\ qTable["4,3"]["right"] = 1000000
    /\ qTable["4,2"]["right"] = 71000

\* C18: in every reachable state each state key present in the Q-table has
\* all four actions (up, down, left, right) populated, a row that is
\* materialised starts with all four at 0, and after every executed step the
\* position the step was taken from and the position it led to are present.
C18_RowsComplete ==
    /\ \A pos \in Positions :
           LET q == ensureState(emptyQTable, getStateKey(pos))
           IN  /\ DOMAIN q = {getStateKey(pos)}
               /\ DOMAIN q[getStateKey(pos)] = {"up", "down", "left", "right"}
               /\ \A a \in {"up", "down", "left", "right"} :
                      q[getStateKey(pos)][a] = 0
    /\ \A key \in DOMAIN qTable :
           /\ DOMAIN qTable[key] = {"up", "down", "left", "right"}
           /\ \A a \in DOMAIN qTable[key] : qTable[key][a] \in Int
    /\ \A i \in 1..Len(currentPath) :
           getStateKey(currentPath[i].position) \in DOMAIN qTable
    /\ Len(currentPath) > 0 => getStateKey(agentPos) \in DOMAIN qTable

\* C18 witness: four steps from the start cell materialised five rows, the
\* last the row of the skull cell (2,2) the run ended on
C18_Witness ==
    /\ Cardinality(DOMAIN qTable) = 5
    /\ Len(currentPath) = 4
    /\ agentPos = <<2, 2>>
    /\ "2,2" \in DOMAIN qTable
    /\ \A a \in ActionSet : qTable["2,2"][a] = 0

\* C19: when the policy exploits, and in every iteration of the extraction of
\* the optimal path, the action selected is the first in the order up, down,
\* left, right whose value is the maximum of the state's four values; a state
\* whose four values are equal selects up.  A path is extracted when it is
\* published, from the Q-table of that moment.
C19_FirstMax(row) ==
    LET order == <<"up", "down", "left", "right">>
        m == CHOOSE v \in {row[order[j]] : j \in 1..4} :
                 \A j \in 1..4 : row[order[j]] <= v
        first == CHOOSE i \in 1..4 :
                     /\ row[order[i]] = m
                     /\ \A j \in 1..(i - 1) : row[order[j]] # m
    IN  order[first]

C19_TieBreakOnRows ==
    \A row \in [ActionSet -> {-1, 0, 1}] :
        /\ greedyAction(row) = C19_FirstMax(row)
        /\ (\A a \in ActionSet : row[a] = row["up"]) => greedyAction(row) = "up"

C19_RowOf(q, pos) ==
    IF getStateKey(pos) \in DOMAIN q
    THEN q[getStateKey(pos)]
    ELSE [a \in ActionSet |-> 0]

C19_FirstMaxSelected ==
    [][ /\ C19_TieBreakOnRows
        /\ (StepTaken /\ stepWith(FALSE, "up")) =>
               \A best \in {C19_FirstMax(C19_RowOf(qTable, agentPos))} :
                   /\ currentPath'[Len(currentPath')].action = best
                   /\ agentPos' = getNextPosition(agentPos, best)
        /\ optimalPath' # optimalPath =>
               \A i \in 1..(Len(optimalPath') - 1) :
                   /\ getStateKey(optimalPath'[i]) \in DOMAIN qTable'
                   /\ optimalPath'[i + 1] = getNextPosition(optimalPath'[i],
                          C19_FirstMax(qTable'[getStateKey(optimalPath'[i])]))
      ]_vars

\* C19 witness: after 'up' against the top edge lowered Q[(0,0)][up] the
\* second step took down, the first maximal action then; with up and down
\* lowered the first maximal action of (0,0) is left, which the path
\* extracted by showOptimalRoute follows against the left edge
C19_Witness ==
    /\ Len(currentPath) = 2
    /\ currentPath[1].position = <<0, 0>> /\ currentPath[1].action = "up"
    /\ currentPath[2].position = <<0, 0>> /\ currentPath[2].action = "down"
    /\ qTable["0,0"]["up"] < 0
    /\ qTable["0,0"]["down"] < 0
    /\ showOptimalPath
    /\ Len(optimalPath) = 50
    /\ optimalPath[2] = <<0, 0>>

\* C20: the Q-table survives episode boundaries: the set of materialised
\* state keys never shrinks and no stored value is changed by the deferred
\* return-to-start or by any handler but step and reset; a step, terminal or
\* not, changes only the value of the state and action it took; only reset()
\* empties the table.
C20_QTableSurvivesEpisodes ==
    [][ /\ (DOMAIN qTable' = {} /\ DOMAIN qTable # {}) => reset
        /\ ~reset =>
              /\ DOMAIN qTable \subseteq DOMAIN qTable'
              /\ ~StepTaken => qTable' = qTable
              /\ StepTaken =>
                    \A key \in DOMAIN qTable : \A a \in ActionSet :
                        \/ /\ key = getStateKey(agentPos)
                           /\ a = currentPath'[Len(currentPath')].action
                        \/ qTable'[key][a] = qTable[key][a]
      ]_vars

\* C20 witness: after the episode that ended on the skull at (3,1) and its
\* return-to-start, the five rows and the value learned at the skull are
\* still stored
C20_Witness ==
    /\ episodeCount = 1
    /\ pendingResets = 0
    /\ phase = "active"
    /\ currentPath = <<>>
    /\ Cardinality(DOMAIN qTable) = 5
    /\ "3,0" \in DOMAIN qTable
    /\ qTable["3,0"]["right"] = -1000000
    /\ qTable["0,0"]["down"] = -10000

\* C21: the published optimal path changes only by a step that lands on a
\* terminal cell, by showOptimalPath() with a non-empty Q-table, or by
\* reset(), which clears it; a step that does not land on a terminal cell,
\* toggleRun(), hideOptimalPath(), saveCurrentPath() and the deferred
\* return-to-start leave it unchanged.  (showOptimalPath() is seen by its
\* effect: the display flag is on and nothing but the flag and the path has
\* changed.)
C21_OptimalPathFrame ==
    [][ /\ optimalPath' # optimalPath =>
              \/ StepTaken /\ agentPos' \in TerminalCells
              \/ /\ DOMAIN qTable # {}
                 /\ showOptimalPath'
                 /\ UNCHANGED <<qTable, agentPos, currentPath, savedPaths,
                                isRunning, stepCount, episodeCount,
                                pendingResets>>
              \/ reset /\ optimalPath' = <<>>
        /\ (StepTaken /\ agentPos' \notin TerminalCells) =>
              optimalPath' = optimalPath
        /\ toggleSimulation => optimalPath' = optimalPath
        /\ hideOptimalPath => optimalPath' = optimalPath
        /\ saveCurrentPath => optimalPath' = optimalPath
        /\ ReturnToStart => optimalPath' = optimalPath
      ]_vars

\* C21 witness: a path published by showOptimalPath() before any episode
\* ended is still published after three steps short of a terminal cell, a
\* save, a hide and a toggle
C21_Witness ==
    /\ episodeCount = 0
    /\ stepCount = 3
    /\ agentPos = <<3, 0>>
    /\ Len(optimalPath) = 50
    /\ ~showOptimalPath
    /\ isRunning
    /\ Len(savedPaths) = 1
    /\ Len(savedPaths[1].steps) = 3

\* C22: the deferred return-to-start fires only while the agent is on a
\* terminal cell: it never moves the agent to the start cell or clears the
\* trajectory in the middle of an episode in progress (when it fires off a
\* terminal cell there is no step of a new episode to lose).
C22_ReturnOnlyFromTerminal ==
    [][ ReturnToStart =>
          \/ agentPos \in TerminalCells
          \/ agentPos = <<0, 0>> /\ currentPath = <<>>
      ]_vars

====
